---- MODULE Spec2Model ----
(***************************************************************************)
(* Model of the two benchmark harnesses of ArtSin/desktop_search:          *)
(*   src/data/recoll_benchmark.py     (Term-OR queries, walk-and-backfill  *)
(*                                     deduplication on doc.filename)      *)
(*   src/data/docfetcher_benchmark.py (literal queries, truncation only)   *)
(* Strings are sequences of one-character strings, so that slicing,        *)
(* replace(), split() and join() are computed the way Python computes them.*)
(***************************************************************************)
EXTENDS Integers, Sequences, FiniteSets, TLC

VARIABLES
    backend,          \* which harness runs: "recoll" or "docfetcher"
    index,            \* ranked result list the backend holds for a search
    qi,               \* number of rows the csv reader has yielded so far
    pc,               \* position of the script
    exc,              \* exception propagating, "none" when there is none
    queries_f_open,   \* input handle held by the outer with-block
    results_f_open,   \* output handle held by the inner with-block
    clock,            \* last reading of time.perf_counter()
    query_id,
    query_text,
    time_start,
    query_norm,       \* the string handed to the backend, NotYet before
    cursor,           \* results the backend has handed out for this query
    fetch_calls,      \* fetchone() calls issued for this query
    results,
    pos,              \* index of the list iterator of "for doc in results"
    results_ids,
    results_dedup,
    duration_s,
    out,              \* rows written to the run file
    stdout            \* progress notices printed

vars == << backend, index, qi, pc, exc, queries_f_open, results_f_open, clock,
           query_id, query_text, time_start, query_norm, cursor, fetch_calls,
           results, pos, results_ids, results_dedup, duration_s, out, stdout >>

\* ------------------------------------------------------------------ bounds
MaxQueries == 2     \* rows the input file may hold
MaxHead == 2        \* freely chosen results at the top of the ranking
MaxTail == 1        \* freely chosen results after the first MAX_RANK ones
MaxClock == 1       \* largest reading of the performance counter
MaxLen == 4         \* length of the query texts of the normalisation runs

\* --------------------------------------------------------------- constants
MAX_RANK == 100

\* ------------------------------------------------------- Python primitives
\* The value None (fetchone() at the end of the results, in the builds that
\* return it instead of raising).
NoneDoc == << "None" >>

\* The normalised query does not exist before the argument of the search call
\* has been evaluated.
NotYet == << "NotYet" >>

Min(a, b) == IF a <= b THEN a ELSE b

\* s[:n] for n >= 0
Take(s, n) == SubSeq(s, 1, Min(n, Len(s)))

\* s[n:] for n >= 0
Drop(s, n) == SubSeq(s, n + 1, Len(s))

\* s[:-4]
DropLast4(s) == SubSeq(s, 1, Len(s) - 4)

StartsWith(s, p) == Len(s) >= Len(p) /\ SubSeq(s, 1, Len(p)) = p

\* str.replace(old, new): leftmost non-overlapping occurrences, left to right
RECURSIVE Replace(_, _, _)
Replace(s, old, new) ==
    IF Len(s) < Len(old) THEN s
    ELSE IF StartsWith(s, old)
         THEN new \o Replace(Drop(s, Len(old)), old, new)
         ELSE << Head(s) >> \o Replace(Tail(s), old, new)

Whitespace == { " ", "\t" }

\* str.split() without arguments: maximal runs of non-whitespace characters
RECURSIVE SplitAcc(_, _)
SplitAcc(s, cur) ==
    IF s = << >> THEN (IF cur = << >> THEN << >> ELSE << cur >>)
    ELSE IF Head(s) \in Whitespace
         THEN (IF cur = << >> THEN << >> ELSE << cur >>) \o SplitAcc(Tail(s), << >>)
         ELSE SplitAcc(Tail(s), Append(cur, Head(s)))

Split(s) == SplitAcc(s, << >>)

\* sep.join(parts)
RECURSIVE Join(_, _)
Join(parts, sep) ==
    IF parts = << >> THEN << >>
    ELSE IF Len(parts) = 1 THEN parts[1]
    ELSE parts[1] \o sep \o Join(Tail(parts), sep)

OrSep == << " ", "O", "R", " " >>

\* ------------------------------------------------------------ normalisation
\* the chain without its last link, .replace("/", " ")
StrippedKeepsSlash(text) ==
    LET s1 == Replace(text, << "." >>, << >>)
        s2 == Replace(s1, << "," >>, << >>)
        s3 == Replace(s2, << ":" >>, << >>)
        s4 == Replace(s3, << "?" >>, << >>)
        s5 == Replace(s4, << "(" >>, << >>)
        s6 == Replace(s5, << ")" >>, << >>)
        s7 == Replace(s6, << " ", "-", " " >>, << " " >>)
    IN  Replace(s7, << "-", "-", "-" >>, << " " >>)

\* recoll_benchmark.py, lines 26-34: the chain of replace() calls
Stripped(text) ==
    LET s1 == Replace(text, << "." >>, << >>)
        s2 == Replace(s1, << "," >>, << >>)
        s3 == Replace(s2, << ":" >>, << >>)
        s4 == Replace(s3, << "?" >>, << >>)
        s5 == Replace(s4, << "(" >>, << >>)
        s6 == Replace(s5, << ")" >>, << >>)
        s7 == Replace(s6, << " ", "-", " " >>, << " " >>)
        s8 == Replace(s7, << "-", "-", "-" >>, << " " >>)
    IN  Replace(s8, << "/" >>, << " " >>)

\* recoll_benchmark.py, line 35: .split()
Terms(text) == Split(Stripped(text))

\* recoll_benchmark.py, lines 25-36: " OR ".join(... .split())
TermOr(text) == Join(Terms(text), OrSep)

\* docfetcher_benchmark.py, line 28: query_text.replace("/", " ")
Literal(text) == Replace(text, << "/" >>, << " " >>)

\* ------------------------------------------------------------- environment
Digits == << "0", "1", "2", "3", "4", "5", "6", "7", "8", "9" >>

Digit(d) == Digits[d + 1]

\* the query id of the k-th row of the input file
Id(k) == << Digit(k) >>

\* the query text of the rows of the harness runs
RunTexts == { << "a", "/", "b", " ", "c", "?" >> }

\* rows the csv reader can yield as the k-th row: two columns, or fewer
Rows(k) == { << Id(k), t >> : t \in RunTexts } \cup { << Id(k) >>, << >> }

Ext == << ".", "t", "x", "t" >>

\* two files whose names differ only in the last 4 characters
SmallFiles == { << "a" >> \o Ext, << "a", ".", "p", "d", "f" >> }

\* the k-th of a supply of pairwise different file names
Name(k) == << Digit(k \div 100), Digit((k \div 10) % 10), Digit(k % 10) >> \o Ext

Fill(n) == [ k \in 1..n |-> Name(k) ]

SeqsUpTo(S, n) == UNION { [ 1..k -> S ] : k \in 0..n }

\* rankings the backend may hold: a freely chosen head, then either nothing
\* or pairwise different results up to position MAX_RANK, then a freely
\* chosen tail (the results fetchone() and the truncation are about)
Indexes ==
    { h \o Fill(m) \o t :
        h \in SeqsUpTo(SmallFiles, MaxHead),
        t \in SeqsUpTo(SmallFiles, MaxTail),
        m \in { 0, MAX_RANK - MaxHead } }

\* query texts of the normalisation runs
Alphabet == { "a", ".", ",", ":", "?", "(", ")", " ", "-", "/", "\t" }

ExampleText ==
    << "W", "h", "a", "t", " ", "i", "s", " ", "(", "t", "h", "e", ")", " ",
       "c", "o", "s", "t", "?" >>

PathText == << "a", "/", "b", "/", "c" >>

NormTexts == SeqsUpTo(Alphabet, MaxLen) \cup { ExampleText, PathText }

\* ------------------------------------------------------ backend operations
\* query.fetchmany(n): the next n results, fewer when fewer are left
FetchMany(stream, n) == Take(stream, n)

\* the slice left out: every result of the search is kept
TruncateNothing(stream, n) == stream

\* searcher.search(...)[:n]
Truncate(stream, n) == Take(stream, n)

\* ------------------------------------------------------------- row writer
\* the list the row writer enumerates
Final == IF backend = "recoll" THEN results_dedup ELSE results

\* ranks counted from 1 (enumerate(..., 1))
RowOneBased(qid, filename, k, dur) ==
    [ query_id |-> qid, iteration |-> 0, doc_id |-> DropLast4(filename),
      rank |-> k + 1, score |-> MAX_RANK - (k + 1), run_tag |-> 0,
      duration_s |-> dur ]

\* recoll_benchmark.py 57, docfetcher_benchmark.py 33-41: one output row
Row(qid, filename, k, dur) ==
    [ query_id |-> qid, iteration |-> 0, doc_id |-> DropLast4(filename),
      rank |-> k, score |-> MAX_RANK - k, run_tag |-> 0, duration_s |-> dur ]

\* ------------------------------------------------------------------ actions
Init ==
    /\ backend \in { "recoll", "docfetcher" }
    /\ index \in Indexes
    /\ qi = 0
    /\ pc = "for"
    /\ exc = "none"
    /\ queries_f_open = TRUE
    /\ results_f_open = TRUE
    /\ clock = 0
    /\ query_id = << >>
    /\ query_text = << >>
    /\ time_start = 0
    /\ query_norm = NotYet
    /\ cursor = 0
    /\ fetch_calls = 0
    /\ results = << >>
    /\ pos = 0
    /\ results_ids = { }
    /\ results_dedup = << >>
    /\ duration_s = 0
    /\ out = << >>
    /\ stdout = << >>

\* the exception is caught inside the loop, which goes on with the next row
RaiseAndContinue(e) ==
    /\ exc' = e
    /\ pc' = "for"

\* an exception leaves the loop and unwinds the two with-blocks
Raise(e) ==
    /\ exc' = e
    /\ pc' = "exit_results"

\* the csv reader yields a row of two columns (lines 17-19 / 23-25)
ReadRow ==
    /\ pc = "for"
    /\ qi < MaxQueries
    /\ \E row \in Rows(qi + 1) :
        /\ Len(row) >= 2
        /\ query_id' = row[1]
        /\ query_text' = row[2]
    /\ qi' = qi + 1
    /\ query_norm' = NotYet
    /\ pc' = "timer"
    /\ UNCHANGED << backend, index, exc, queries_f_open, results_f_open, clock,
                    time_start, cursor, fetch_calls, results, pos, results_ids,
                    results_dedup, duration_s, out, stdout >>

\* the csv reader yields a row of fewer than two columns: query_row[0] or
\* query_row[1] raises IndexError
ReadShortRow ==
    /\ pc = "for"
    /\ qi < MaxQueries
    /\ \E row \in Rows(qi + 1) :
        /\ Len(row) < 2
        /\ query_id' = IF Len(row) >= 1 THEN row[1] ELSE query_id
    /\ qi' = qi + 1
    /\ Raise("IndexError")
    /\ UNCHANGED << backend, index, queries_f_open, results_f_open, clock,
                    query_text, time_start, query_norm, cursor, fetch_calls,
                    results, pos, results_ids, results_dedup, duration_s,
                    out, stdout >>

\* the csv reader is exhausted: the for loop ends
EndOfInput ==
    /\ pc = "for"
    /\ pc' = "exit_results"
    /\ UNCHANGED << backend, index, qi, exc, queries_f_open, results_f_open,
                    clock, query_id, query_text, time_start, query_norm, cursor,
                    fetch_calls, results, pos, results_ids, results_dedup,
                    duration_s, out, stdout >>

\* time.perf_counter(): a monotonic clock, so no reading is below the last
PerfCounter(t) == t \in clock..MaxClock

\* time_start = time.perf_counter()   (line 21 / 27)
StartTimer ==
    /\ pc = "timer"
    /\ \E t \in 0..MaxClock :
        /\ PerfCounter(t)
        /\ clock' = t
        /\ time_start' = t
    /\ pc' = "normalize"
    /\ UNCHANGED << backend, index, qi, exc, queries_f_open, results_f_open,
                    query_id, query_text, query_norm, cursor, fetch_calls,
                    results, pos, results_ids, results_dedup, duration_s,
                    out, stdout >>

\* recoll: the argument of query.execute() is evaluated (lines 25-36)
NormalizeTermOr ==
    /\ pc = "normalize"
    /\ backend = "recoll"
    /\ query_norm' = TermOr(query_text)
    /\ pc' = "search"
    /\ UNCHANGED << backend, index, qi, exc, queries_f_open, results_f_open,
                    clock, query_id, query_text, time_start, cursor, fetch_calls,
                    results, pos, results_ids, results_dedup, duration_s,
                    out, stdout >>

\* docfetcher: the argument of searcher.search() is evaluated (line 28)
NormalizeLiteral ==
    /\ pc = "normalize"
    /\ backend = "docfetcher"
    /\ query_norm' = Literal(query_text)
    /\ pc' = "search"
    /\ UNCHANGED << backend, index, qi, exc, queries_f_open, results_f_open,
                    clock, query_id, query_text, time_start, cursor, fetch_calls,
                    results, pos, results_ids, results_dedup, duration_s,
                    out, stdout >>

\* recoll: query.execute(...), query.fetchmany(MAX_RANK) and the two empty
\* collections of the deduplication (lines 24, 41-43)
SearchRecoll ==
    /\ pc = "search"
    /\ backend = "recoll"
    /\ results' = FetchMany(index, MAX_RANK)
    /\ cursor' = Len(results')
    /\ fetch_calls' = 0
    /\ results_dedup' = << >>
    /\ results_ids' = { }
    /\ pos' = 0
    /\ pc' = "dedup"
    /\ UNCHANGED << backend, index, qi, exc, queries_f_open, results_f_open,
                    clock, query_id, query_text, time_start, query_norm,
                    duration_s, out, stdout >>

\* docfetcher: searcher.search(...)[:MAX_RANK]   (line 28)
SearchDocfetcher ==
    /\ pc = "search"
    /\ backend = "docfetcher"
    /\ results' = Truncate(index, MAX_RANK)
    /\ cursor' = Len(index)
    /\ pc' = "stop"
    /\ UNCHANGED << backend, index, qi, exc, queries_f_open, results_f_open,
                    clock, query_id, query_text, time_start, query_norm,
                    fetch_calls, pos, results_ids, results_dedup, duration_s,
                    out, stdout >>

\* the membership test always fails: nothing is taken for a duplicate
IsDuplicateNever(filename, ids) == FALSE

\* the test of line 45
IsDuplicate(filename, ids) == filename \in ids

\* one iteration of "for doc in results" on a document not seen before
\* (lines 44-45, 47-49)
DedupAccept ==
    /\ pc = "dedup"
    /\ pos < Len(results)
    /\ results[pos + 1] # NoneDoc
    /\ ~ IsDuplicate(results[pos + 1], results_ids)
    /\ results_ids' = results_ids \cup { results[pos + 1] }
    /\ results_dedup' = Append(results_dedup, results[pos + 1])
    /\ pos' = pos + 1
    /\ UNCHANGED << backend, index, qi, pc, exc, queries_f_open, results_f_open,
                    clock, query_id, query_text, time_start, query_norm, cursor,
                    fetch_calls, results, duration_s, out, stdout >>

\* one iteration on a duplicate while the backend has a further result:
\* results.append(query.fetchone())   (lines 44-46)
DedupBackfill ==
    /\ pc = "dedup"
    /\ pos < Len(results)
    /\ results[pos + 1] # NoneDoc
    /\ IsDuplicate(results[pos + 1], results_ids)
    /\ cursor < Len(index)
    /\ results' = Append(results, index[cursor + 1])
    /\ cursor' = cursor + 1
    /\ fetch_calls' = fetch_calls + 1
    /\ pos' = pos + 1
    /\ UNCHANGED << backend, index, qi, pc, exc, queries_f_open, results_f_open,
                    clock, query_id, query_text, time_start, query_norm,
                    results_ids, results_dedup, duration_s, out, stdout >>

\* one iteration on a duplicate when the backend has no further result:
\* fetchone() raises StopIteration, or (other builds of the binding) returns
\* None, which is appended to the list being walked
DedupBackfillEnd ==
    /\ pc = "dedup"
    /\ pos < Len(results)
    /\ results[pos + 1] # NoneDoc
    /\ IsDuplicate(results[pos + 1], results_ids)
    /\ cursor = Len(index)
    /\ fetch_calls' = fetch_calls + 1
    /\ \/ /\ Raise("StopIteration")
          /\ UNCHANGED << results, pos >>
       \/ /\ results' = Append(results, NoneDoc)
          /\ pos' = pos + 1
          /\ UNCHANGED << pc, exc >>
    /\ UNCHANGED << backend, index, qi, queries_f_open, results_f_open, clock,
                    query_id, query_text, time_start, query_norm, cursor,
                    results_ids, results_dedup, duration_s, out, stdout >>

\* one iteration on an appended None: doc.filename raises AttributeError
DedupNone ==
    /\ pc = "dedup"
    /\ pos < Len(results)
    /\ results[pos + 1] = NoneDoc
    /\ Raise("AttributeError")
    /\ UNCHANGED << backend, index, qi, queries_f_open, results_f_open, clock,
                    query_id, query_text, time_start, query_norm, cursor,
                    fetch_calls, results, pos, results_ids, results_dedup,
                    duration_s, out, stdout >>

\* the list iterator is exhausted; query.close()   (lines 44, 51)
QueryClose ==
    /\ pc = "dedup"
    /\ pos = Len(results)
    /\ pc' = "stop"
    /\ UNCHANGED << backend, index, qi, exc, queries_f_open, results_f_open,
                    clock, query_id, query_text, time_start, query_norm, cursor,
                    fetch_calls, results, pos, results_ids, results_dedup,
                    duration_s, out, stdout >>

\* the operands of the subtraction swapped
ElapsedReversed(now, start) == start - now

\* the elapsed time of line 53 / 29
Elapsed(now, start) == now - start

\* duration_s = time.perf_counter() - time_start   (line 53 / 29)
StopTimer ==
    /\ pc = "stop"
    /\ \E t \in 0..MaxClock :
        /\ PerfCounter(t)
        /\ clock' = t
        /\ duration_s' = Elapsed(t, time_start)
    /\ pc' = "write"
    /\ UNCHANGED << backend, index, qi, exc, queries_f_open, results_f_open,
                    query_id, query_text, time_start, query_norm, cursor,
                    fetch_calls, results, pos, results_ids, results_dedup, out,
                    stdout >>

\* the row loop: one results_csv.writerow(...) per document of the final
\* list, numbered by enumerate() from 0   (lines 55-58 / 31-42)
WriteRows ==
    /\ pc = "write"
    /\ out' = out \o [ k \in 1..Len(Final) |->
                         Row(query_id, Final[k], k - 1, duration_s) ]
    /\ pc' = "print"
    /\ UNCHANGED << backend, index, qi, exc, queries_f_open, results_f_open,
                    clock, query_id, query_text, time_start, query_norm, cursor,
                    fetch_calls, results, pos, results_ids, results_dedup,
                    duration_s, stdout >>

\* the notice printed ahead of the row loop
PrintProgressEarly ==
    /\ pc = "write"
    /\ Len(stdout) < qi
    /\ stdout' = Append(stdout, query_id)
    /\ UNCHANGED << backend, index, qi, pc, exc, queries_f_open, results_f_open,
                    clock, query_id, query_text, time_start, query_norm, cursor,
                    fetch_calls, results, pos, results_ids, results_dedup,
                    duration_s, out >>

\* print(f"Processed query {query_id}")   (line 60 / 44)
PrintProgress ==
    /\ pc = "print"
    /\ stdout' = Append(stdout, query_id)
    /\ pc' = "for"
    /\ UNCHANGED << backend, index, qi, exc, queries_f_open, results_f_open,
                    clock, query_id, query_text, time_start, query_norm, cursor,
                    fetch_calls, results, pos, results_ids, results_dedup,
                    duration_s, out >>

\* the inner with-block is left, normally or by an exception   (line 12 / 13)
ExitResults ==
    /\ pc = "exit_results"
    /\ results_f_open' = FALSE
    /\ pc' = "exit_queries"
    /\ UNCHANGED << backend, index, qi, exc, queries_f_open, clock, query_id,
                    query_text, time_start, query_norm, cursor, fetch_calls,
                    results, pos, results_ids, results_dedup, duration_s,
                    out, stdout >>

\* the outer with-block is left; the script ends or dies   (line 9 / 10)
ExitQueries ==
    /\ pc = "exit_queries"
    /\ queries_f_open' = FALSE
    /\ pc' = IF exc = "none" THEN "done" ELSE "aborted"
    /\ UNCHANGED << backend, index, qi, exc, results_f_open, clock, query_id,
                    query_text, time_start, query_norm, cursor, fetch_calls,
                    results, pos, results_ids, results_dedup, duration_s,
                    out, stdout >>

Next ==
    \/ ReadRow
    \/ ReadShortRow
    \/ EndOfInput
    \/ StartTimer
    \/ NormalizeTermOr
    \/ NormalizeLiteral
    \/ SearchRecoll
    \/ SearchDocfetcher
    \/ DedupAccept
    \/ DedupBackfill
    \/ DedupBackfillEnd
    \/ DedupNone
    \/ QueryClose
    \/ StopTimer
    \/ WriteRows
    \/ PrintProgress
    \/ ExitResults
    \/ ExitQueries

Spec == Init /\ [][Next]_vars

\* ------------------------------------------------ normalisation on its own
\* the state in which the search argument is about to be evaluated, for
\* every query text up to MaxLen characters
InitNorm ==
    /\ backend \in { "recoll", "docfetcher" }
    /\ index = << >>
    /\ qi = 1
    /\ pc = "normalize"
    /\ exc = "none"
    /\ queries_f_open = TRUE
    /\ results_f_open = TRUE
    /\ clock = 0
    /\ query_id = Id(1)
    /\ query_text \in NormTexts
    /\ time_start = 0
    /\ query_norm = NotYet
    /\ cursor = 0
    /\ fetch_calls = 0
    /\ results = << >>
    /\ pos = 0
    /\ results_ids = { }
    /\ results_dedup = << >>
    /\ duration_s = 0
    /\ out = << >>
    /\ stdout = << >>

NextNorm ==
    \/ NormalizeTermOr
    \/ NormalizeLiteral

SpecNorm == InitNorm /\ [][NextNorm]_vars

\* ----------------------------------------------------------------- claims
\* the rows written for the query of the k-th input row, in emission order
RowsOf(k) == SelectSeq(out, LAMBDA r : r.query_id = Id(k))

\* the position in the input file of the query a row belongs to
RowIndex(r) == CHOOSE k \in 1..MaxQueries : Id(k) = r.query_id

Range(s) == { s[k] : k \in 1..Len(s) }

\* the first MAX_RANK results, the batch fetchmany() hands out
BatchLen == Min(MAX_RANK, Len(index))

\* C1: no two rows emitted for one query carry the same doc_id (the file
\* name without its last 4 characters), whatever the backend returns.
C1_DistinctDocIds ==
    \A j \in 1..Len(out) : \A k \in 1..Len(out) :
        (j # k /\ out[j].query_id = out[k].query_id)
            => out[j].doc_id # out[k].doc_id

\* fetchone() has been called more often than the backend had results left
\* after the first batch: one call met the end of the results
EndOfResultsSignalled ==
    /\ backend = "recoll"
    /\ fetch_calls > Len(index) - BatchLen

\* C2: end-of-results on a backfill is not an error: the query ends with the
\* documents accepted so far and the run goes on.
C2_ExhaustionIsNoError ==
    EndOfResultsSignalled
        => /\ exc = "none"
           /\ NoneDoc \notin Range(results)

FirstOccurrences(s) ==
    LET firsts == SelectSeq([ k \in 1..Len(s) |-> k ],
                            LAMBDA k : \A j \in 1..(k - 1) : s[j] # s[k])
    IN  [ n \in 1..Len(firsts) |-> s[firsts[n]] ]

C5_AtMostMaxRankRows ==
    \A k \in 1..MaxQueries : Len(RowsOf(k)) <= MAX_RANK

\* a query whose backend holds more than MAX_RANK results has been written
C5_Witness ==
    /\ Len(index) > MAX_RANK
    /\ pc = "for"
    /\ Len(RowsOf(1)) = MAX_RANK

\* C6: the j-th row of a query (counting from 0) has rank j and score
\* MAX_RANK - j.
C6_RankAndScore ==
    \A k \in 1..MaxQueries :
        LET rs == RowsOf(k)
        IN  \A j \in 1..Len(rs) :
                /\ rs[j].rank = j - 1
                /\ rs[j].score = MAX_RANK - (j - 1)

\* rows were written for a query in which duplicates were discarded
C6_Witness ==
    /\ backend = "recoll"
    /\ pc = "for"
    /\ Len(results_dedup) >= 2
    /\ Len(results) > Len(results_dedup)
    /\ Len(RowsOf(qi)) = Len(results_dedup)

\* the step that samples the clock into time_start
SamplesStart == pc = "timer" /\ pc' = "normalize"

\* the step that samples the clock again and computes duration_s
SamplesStop == pc = "stop" /\ pc' = "write"

\* the durations written are non-negative, one value per query, and the
\* rows of the query being written carry the duration just measured
DurationsAgree ==
    /\ \A j \in 1..Len(out) :
        /\ out[j].duration_s >= 0
        /\ j > 1 /\ out[j].query_id = out[j - 1].query_id
              => out[j].duration_s = out[j - 1].duration_s
    /\ (pc = "print" /\ Final # << >>) => out[Len(out)].duration_s = duration_s

\* C7 as stated: the first sample is taken after normalization has finished.
C7_SampledAfterNormalization ==
    [][ SamplesStart => query_norm # NotYet ]_vars

\* C7 as amended: the first sample is taken before the query text is
\* normalized and before the search call; the second after deduplication
\* and before any row of the query is written; duration_s is their
\* difference, non-negative and the same on every row of the query.
C7_TimedRegion ==
    /\ [][ SamplesStart => /\ query_norm = NotYet
                           /\ time_start' = clock' ]_vars
    /\ [][ pc = "search" /\ pc' # "search" => time_start <= clock ]_vars
    /\ [][ SamplesStop => /\ duration_s' = clock' - time_start
                          /\ RowsOf(qi) = << >> ]_vars
    /\ [] DurationsAgree

\* two rows of one query carry a duration measured with a clock that moved
C7_Witness ==
    /\ pc = "print"
    /\ Len(Final) >= 2
    /\ duration_s > 0
    /\ out[Len(out)].duration_s = duration_s
    /\ out[Len(out) - 1].duration_s = duration_s

\* the stages of one query, in order; an exception leaves the loop, and the
\* docfetcher search statement truncates in the search step itself
StageOrder ==
    { << "for", "timer" >>, << "timer", "normalize" >>,
      << "normalize", "search" >>, << "search", "dedup" >>,
      << "search", "stop" >>, << "dedup", "stop" >>, << "stop", "write" >>,
      << "write", "print" >>, << "print", "for" >>, << "for", "exit_results" >>,
      << "dedup", "exit_results" >>, << "exit_results", "exit_queries" >>,
      << "exit_queries", "done" >>, << "exit_queries", "aborted" >> }

InQuery ==
    pc \in { "timer", "normalize", "search", "dedup", "stop", "write", "print" }

\* notices are printed in input order, one per completed query; rows are
\* grouped by query in input order; the query in progress has no row before
\* its writing stage and no notice
Sequential ==
    /\ stdout = [ k \in 1..Len(stdout) |-> Id(k) ]
    /\ InQuery => Len(stdout) = qi - 1
    /\ (pc = "for" /\ exc = "none") => Len(stdout) = qi
    /\ \A j \in 1..Len(out) :
        /\ RowIndex(out[j]) <= qi
        /\ j > 1 => RowIndex(out[j - 1]) <= RowIndex(out[j])
    /\ (InQuery /\ pc # "print") => RowsOf(qi) = << >>
    /\ pc = "print" => Len(RowsOf(qi)) = Len(Final)

\* C8: queries are processed one at a time in input order through the
\* stages in order; all rows of a query are written before its notice, the
\* notice before any backend call of the next query.
C8_StrictSequence ==
    /\ [][ pc' # pc => << pc, pc' >> \in StageOrder ]_vars
    /\ [][ (backend = "recoll" /\ pc = "search") => pc' \in { "search", "dedup" } ]_vars
    /\ [][ stdout' # stdout => /\ Len(RowsOf(qi)) = Len(Final)
                               /\ stdout' = Append(stdout, Id(qi)) ]_vars
    /\ [][ (cursor' # cursor \/ fetch_calls' # fetch_calls)
              => Len(stdout) = qi - 1 ]_vars
    /\ [] Sequential

\* two queries have been completed, each with rows
C8_Witness ==
    /\ Len(stdout) = 2
    /\ RowsOf(1) # << >>
    /\ RowsOf(2) # << >>

\* C9: a row of fewer than two columns aborts the run at that row: no
\* backend call, no row and no notice for it or any later query, earlier
\* rows untouched, both handles released.
C9_MalformedRowAborts ==
    /\ [][ (exc = "IndexError" \/ exc' = "IndexError")
              => UNCHANGED << out, stdout, cursor, fetch_calls, results,
                              results_dedup, clock >> ]_vars
    /\ [][ exc = "IndexError" => exc' = "IndexError" /\ qi' = qi ]_vars
    /\ [] ( exc = "IndexError"
              => /\ pc \in { "exit_results", "exit_queries", "aborted" }
                 /\ Len(stdout) = qi - 1
                 /\ \A j \in 1..Len(out) : RowIndex(out[j]) < qi )
    /\ [] ( pc = "aborted" => ~ queries_f_open /\ ~ results_f_open )

\* the run died on a malformed second row after the first query was written
C9_Witness ==
    /\ pc = "aborted"
    /\ exc = "IndexError"
    /\ qi = 2
    /\ out # << >>

StripChars == { ".", ",", ":", "?", "(", ")" }

\* C10: Term-OR normalization yields the OR-join of terms none of which is
\* empty or contains . , : ? ( ) / or whitespace; a text of nothing but
\* stripped characters, separators and whitespace yields no term and the
\* empty query; the example text yields What, is, the, cost.
C10_TermOr ==
    (backend = "recoll" /\ pc = "search")
        => LET ts == Terms(query_text)
           IN  /\ query_norm = Join(ts, OrSep)
               /\ \A k \in 1..Len(ts) :
                    /\ ts[k] # << >>
                    /\ Range(ts[k]) \cap (StripChars \cup Whitespace \cup { "/" }) = { }
               /\ Range(query_text) \subseteq (StripChars \cup Whitespace \cup { "/" })
                    => ts = << >> /\ query_norm = << >>
               /\ query_text = ExampleText
                    => ts = << << "W", "h", "a", "t" >>, << "i", "s" >>,
                               << "t", "h", "e" >>, << "c", "o", "s", "t" >> >>

\* the example text has been normalized
C10_Witness ==
    /\ backend = "recoll"
    /\ pc = "search"
    /\ query_text = ExampleText
    /\ Len(query_norm) > 0

====
